---- MODULE Spec2Model ----
\* ipdata command line client (src/ipdata/cli.py): the field projection
\* json_filter and the batch command that applies it to a stream of addresses.
\*
\* Python values are modelled as tagged records; a str is a sequence of
\* one-character strings, so that find/split/join/strip/`in` are computed
\* the way Python computes them.
EXTENDS Integers, Sequences, FiniteSets, TLC

VARIABLES
    pc,             \* position of the running command
    json,           \* json_filter: the record passed in
    fields,         \* json_filter: the selector list
    res,            \* json_filter: the value returned (or the exception raised)
    again,          \* json_filter applied to its own result
    ip_list,        \* batch: the lines of the input file
    fields_opt,     \* batch: the --fields option, a str or None
    extract_fields, \* batch: the selector list split from --fields, or None
    output_format,  \* batch: "JSON" or "CSV"
    idx,            \* batch: number of lines of ip_list consumed by the for loop
    ip,             \* batch: the stripped line being looked up
    rec,            \* batch: what the lookup returned for ip
    results,        \* batch: result_context['results']
    output,         \* batch: what was written to the output file, in order
    err,            \* batch: what was written to stderr, in order
    lookups,        \* batch: the addresses passed to IPData.lookup, in order
    returned,       \* batch: the records IPData.lookup returned, in order
    failure         \* batch: the exception that ended the command, or "none"

vars == <<pc, json, fields, res, again, ip_list, fields_opt, extract_fields, output_format, idx, ip, rec,
          results, output, err, lookups, returned, failure>>

-----------------------------------------------------------------------------
\* Bounds of the model

MaxFields == 2      \* selectors in a selector list
MaxSegments == 2    \* dotted segments in a generated selector
MaxLines == 3       \* lines in the batch input file

-----------------------------------------------------------------------------
\* Python values

Num(n) == [t |-> "int", n |-> n, s |-> <<>>, d |-> <<>>, l |-> <<>>]
Str(s) == [t |-> "str", n |-> 0, s |-> s, d |-> <<>>, l |-> <<>>]
None == [t |-> "None", n |-> 0, s |-> <<>>, d |-> <<>>, l |-> <<>>]
List(l) == [t |-> "list", n |-> 0, s |-> <<>>, d |-> <<>>, l |-> l]
Dict(d) == [t |-> "dict", n |-> 0, s |-> <<>>, d |-> d, l |-> <<>>]
\* an exception leaving the call instead of a value
Raised(e) == [t |-> e, n |-> 0, s |-> <<>>, d |-> <<>>, l |-> <<>>]
TypeError == Raised("TypeError")
KeyError == Raised("KeyError")
LookupFailure == Raised("LookupFailure")

IsRaised(v) == v.t \in {"TypeError", "KeyError", "LookupFailure"}
IsDict(v) == v.t = "dict"

\* dict() and d[k] = v
EmptyDict == Dict(<<>>)
Put(d, k, v) == [x \in DOMAIN d \cup {k} |-> IF x = k THEN v ELSE d[x]]
SetItem(dv, k, v) == Dict(Put(dv.d, k, v))
\* {**a, **b}: the keys of both, b's value where both have the key
Unpack(a, b) ==
    [x \in DOMAIN a \cup DOMAIN b |-> IF x \in DOMAIN b THEN b[x] ELSE a[x]]

-----------------------------------------------------------------------------
\* Python str operations

\* s.find(ch): the 0-based index of the first ch, or -1
Find(s, ch) ==
    IF \E i \in 1..Len(s) : s[i] = ch
    THEN (CHOOSE i \in 1..Len(s) : s[i] = ch /\ \A j \in 1..(i-1) : s[j] # ch) - 1
    ELSE -1

\* s.split(sep) for a one-character sep
RECURSIVE Split(_, _)
Split(s, sep) ==
    LET i == Find(s, sep) IN
    IF i = -1 THEN <<s>>
    ELSE <<SubSeq(s, 1, i)>> \o Split(SubSeq(s, i + 2, Len(s)), sep)

\* sep.join(parts)
RECURSIVE Join(_, _)
Join(parts, sep) ==
    IF Len(parts) = 0 THEN <<>>
    ELSE IF Len(parts) = 1 THEN parts[1]
    ELSE parts[1] \o <<sep>> \o Join(Tail(parts), sep)

IsSpace(ch) == ch \in {" ", "\n"}

\* s.strip()
RECURSIVE LStrip(_)
LStrip(s) == IF Len(s) > 0 /\ IsSpace(s[1]) THEN LStrip(Tail(s)) ELSE s
RECURSIVE RStrip(_)
RStrip(s) ==
    IF Len(s) > 0 /\ IsSpace(s[Len(s)]) THEN RStrip(SubSeq(s, 1, Len(s) - 1)) ELSE s
Strip(s) == RStrip(LStrip(s))

\* x in s, for two str
IsSubstring(x, s) ==
    \E i \in 0..(Len(s) - Len(x)) : SubSeq(s, i + 1, i + Len(x)) = x

-----------------------------------------------------------------------------
\* `name in container` and `container[name]` for a str name

\* int, bool and None are not iterable: `name in v` raises TypeError
SupportsIn(v) == v.t \in {"dict", "str", "list"}

In(name, v) ==
    CASE v.t = "dict" -> name \in DOMAIN v.d
      [] v.t = "str" -> IsSubstring(name, v.s)
      [] v.t = "list" -> \E i \in 1..Len(v.l) : v.l[i].t = "str" /\ v.l[i].s = name
      [] OTHER -> FALSE

\* v[name]: only a dict can be indexed by a str
GetItem(v, name) ==
    IF v.t = "dict"
    THEN (IF name \in DOMAIN v.d THEN v.d[name] ELSE KeyError)
    ELSE TypeError

-----------------------------------------------------------------------------
\* json_filter

RECURSIVE json_filter(_, _)
RECURSIVE FilterLoop(_, _, _, _)

\* the merge of a dotted selector's sub-result into res[part]
MergeSub(r, part, sub_value) ==
    IF IsDict(sub_value)
    THEN IF part \notin DOMAIN r.d
         THEN SetItem(r, part, sub_value)
         ELSE IF IsDict(r.d[part])
              THEN SetItem(r, part, Dict(Unpack(r.d[part].d, sub_value.d)))
              ELSE TypeError      \* ** of a value that is not a mapping
    ELSE SetItem(r, part, sub_value)

\* one iteration of `for name in fields`
FilterStep(js, name, r) ==
    IF ~SupportsIn(js) THEN TypeError
    ELSE IF In(name, js) THEN
        LET v == GetItem(js, name) IN
        IF IsRaised(v) THEN v ELSE SetItem(r, name, v)
    ELSE IF Find(name, ".") # -1 THEN
        LET parts == Split(name, ".")
            \* None when there is a single part: as falsy as ''
            part == IF Len(parts) > 1 THEN parts[1] ELSE <<>>
        IN  IF part # <<>> /\ In(part, js) THEN
                LET sub == GetItem(js, part) IN
                IF IsRaised(sub) THEN sub
                ELSE LET sub_value == json_filter(sub, <<Join(Tail(parts), ".")>>) IN
                     IF IsRaised(sub_value) THEN sub_value
                     ELSE MergeSub(r, part, sub_value)
            ELSE r
    ELSE r

FilterLoop(js, fs, i, r) ==
    IF i > Len(fs) THEN r
    ELSE LET r2 == FilterStep(js, fs[i], r) IN
         IF IsRaised(r2) THEN r2 ELSE FilterLoop(js, fs, i + 1, r2)

json_filter(js, fs) == FilterLoop(js, fs, 1, EmptyDict)

-----------------------------------------------------------------------------
\* The records and selectors json_filter is applied to

s_ip == <<"i", "p">>
s_status == <<"s", "t", "a", "t", "u", "s">>
s_loc == <<"l", "o", "c">>
s_lat == <<"l", "a", "t">>
s_lon == <<"l", "o", "n">>
s_results == <<"r", "e", "s", "u", "l", "t", "s">>
s_addr == <<"8", ".", "8", ".", "8", ".", "8">>          \* the str "8.8.8.8"

KeyNames == {<<"a">>, <<"b">>}
Scalars == {Num(1), None, Str(<<"b">>)}

\* the dicts over KeyNames whose values are drawn from vals
DictsOver(vals) ==
    {Dict(f) : f \in UNION {[ks -> vals] : ks \in SUBSET KeyNames}}

\* every record over KeyNames nested at most two levels deep
GeneratedRecords == DictsOver(Scalars \cup DictsOver(Scalars))

\* the record of the documented example, records nested three levels deep,
\* and a record holding a sequence
SampleRecords ==
    { Dict((s_ip :> Str(s_addr)) @@ (s_status :> Num(200)) @@
           (s_loc :> Dict((s_lat :> Num(1)) @@ (s_lon :> Num(2))))),
      Dict(<<"a">> :> Dict(<<"b">> :> Dict((<<"a">> :> Num(1)) @@ (<<"b">> :> Num(2))))),
      Dict((<<"a">> :> Dict((<<"a">> :> Dict(<<"a">> :> None)) @@ (<<"b">> :> Num(2))))
           @@ (<<"b">> :> Str(<<"a", "b">>))),
      Dict((<<"a">> :> List(<<Str(<<"b">>), Num(1)>>)) @@ (<<"b">> :> Num(2))) }

Records == GeneratedRecords \cup SampleRecords

\* selectors: every dotted path of at most MaxSegments segments over the
\* segments '', 'a' and 'b', and the selectors of the documented examples
Segments == {<<>>, <<"a">>, <<"b">>}
GeneratedSelectors ==
    {Join(p, ".") : p \in UNION {[1..n -> Segments] : n \in 1..MaxSegments}}
SampleSelectors ==
    { s_ip, s_loc \o <<".">> \o s_lat, s_loc \o <<".">> \o s_lon,
      s_status \o <<".", "x">>, s_ip \o <<".", "8">>,
      <<"a", ".", "b", ".", "a">>, <<"a", ".", "b", ".", "b">>, <<"a", ".", "a", ".", "a">>,
      <<"m", "i", "s", "s", "i", "n", "g">> \o <<".">> \o <<"f", "i", "e", "l", "d">> }
Selectors == GeneratedSelectors \cup SampleSelectors
SelectorLists == UNION {[1..n -> Selectors] : n \in 0..MaxFields}

-----------------------------------------------------------------------------
\* json_filter applied to one record and one selector list, and applied
\* once more to what it returned

batchVars == <<ip_list, fields_opt, extract_fields, output_format, idx, ip, rec,
               results, output, err, lookups, returned, failure>>
filterVars == <<json, fields, res, again>>

BatchIdle ==
    /\ ip_list = <<>> /\ fields_opt = None /\ extract_fields = None
    /\ output_format = "JSON" /\ idx = 0 /\ ip = <<>> /\ rec = None
    /\ results = <<>> /\ output = <<>> /\ err = <<>>
    /\ lookups = <<>> /\ returned = <<>> /\ failure = "none"

InitFilter ==
    /\ pc = "json_filter"
    /\ json \in Records
    /\ fields \in SelectorLists
    /\ res = None
    /\ again = None
    /\ BatchIdle

JsonFilter ==
    /\ pc = "json_filter"
    /\ res' = json_filter(json, fields)
    /\ pc' = IF IsRaised(res') THEN "raised" ELSE "returned"
    /\ UNCHANGED <<json, fields, again>>
    /\ UNCHANGED batchVars

JsonFilterAgain ==
    /\ pc = "returned"
    /\ again' = json_filter(res, fields)
    /\ pc' = "reapplied"
    /\ UNCHANGED <<json, fields, res>>
    /\ UNCHANGED batchVars

NextFilter == JsonFilter \/ JsonFilterAgain

SpecFilter == InitFilter /\ [][NextFilter]_vars

-----------------------------------------------------------------------------
\* batch: its inputs

\* the lines of the input file: two addresses, with and without surrounding
\* blanks, and two blank lines
Lines == { <<"1", "\n">>, <<" ", "2", " ", "\n">>, <<"\n">>, <<" ", "\n">> }
InputFiles == UNION {[1..n -> Lines] : n \in 0..MaxLines}

\* the --fields option: absent, empty, bare keys, dotted keys
FieldsOptions ==
    { None, Str(<<>>), Str(s_ip), Str(s_ip \o <<",">> \o s_loc),
      Str(s_ip \o <<",">> \o s_loc \o <<".">> \o s_lat),
      Str(s_loc \o <<".">> \o s_lat \o <<",">> \o s_loc \o <<".">> \o s_lon),
      Str(s_status \o <<".", "x">>) }

\* IPData.lookup(ip): the record of the address, with or without its loc
\* group, or an exception
LookupOutcomes(addr) ==
    { Dict((s_ip :> Str(addr)) @@ (s_status :> Num(200)) @@
           (s_loc :> Dict((s_lat :> Num(1)) @@ (s_lon :> Num(2))))),
      Dict((s_ip :> Str(addr)) @@ (s_status :> Num(200))),
      LookupFailure }

\* what is written to the output file
Header(text) == [kind |-> "header", text |-> text, cells |-> <<>>, doc |-> None]
Row(cells) == [kind |-> "row", text |-> <<>>, cells |-> cells, doc |-> None]
Document(doc) == [kind |-> "json", text |-> <<>>, cells |-> <<>>, doc |-> doc]

\* bool(v) of a str or None
Truthy(v) == v.t = "str" /\ v.s # <<>>

\* the split without its guard: '' gives the one selector ''
ExtractFieldsUnguarded(f) ==
    IF f.t = "str"
    THEN LET parts == Split(f.s, ",") IN List([i \in 1..Len(parts) |-> Str(parts[i])])
    ELSE None

\* fields.split(',') if fields else None
ExtractFields(f) ==
    IF Truthy(f)
    THEN LET parts == Split(f.s, ",") IN List([i \in 1..Len(parts) |-> Str(parts[i])])
    ELSE None

\* the str of each element of a list of str
Names(lst) == [i \in 1..Len(lst.l) |-> lst.l[i].s]

-----------------------------------------------------------------------------
\* get_ip_info after the lookup has returned res

GetIpInfo(r, fs) ==
    IF fs.t = "list" /\ Len(fs.l) > 0 THEN json_filter(r, Names(fs)) ELSE r

\* [res[k] for k in extract_fields], or the KeyError of the first missing k
RowCells(r, fs) ==
    LET cells == [i \in 1..Len(fs.l) |-> GetItem(r, fs.l[i].s)] IN
    IF \E i \in 1..Len(cells) : IsRaised(cells[i])
    THEN cells[CHOOSE i \in 1..Len(cells) :
                   IsRaised(cells[i]) /\ \A j \in 1..(i - 1) : ~IsRaised(cells[j])]
    ELSE List(cells)

-----------------------------------------------------------------------------
\* batch

FilterIdle == json = None /\ fields = <<>> /\ res = None /\ again = None

Init ==
    /\ pc = "batch"
    /\ ip_list \in InputFiles
    /\ fields_opt \in FieldsOptions
    /\ output_format \in {"JSON", "CSV"}
    /\ extract_fields = None
    /\ idx = 0 /\ ip = <<>> /\ rec = None
    /\ results = <<>> /\ output = <<>> /\ err = <<>>
    /\ lookups = <<>> /\ returned = <<>> /\ failure = "none"
    /\ FilterIdle

\* lines 131-160: the check of the options, the CSV header, the choice of
\* print_result and finish
Setup ==
    /\ pc = "batch"
    /\ extract_fields' = ExtractFields(fields_opt)
    /\ IF output_format = "CSV" /\ extract_fields' = None
       THEN /\ err' = Append(err, "CSV format is not supported without fields")
            /\ pc' = "returned"
            /\ UNCHANGED <<output, results>>
       ELSE IF output_format = "CSV"
       THEN /\ output' = Append(output, Header(<<"#", " ">> \o fields_opt.s))
            /\ pc' = "for"
            /\ UNCHANGED <<err, results>>
       ELSE IF output_format = "JSON"
       THEN /\ results' = <<>>
            /\ pc' = "for"
            /\ UNCHANGED <<err, output>>
       ELSE /\ err' = Append(err, "Unsupported format")
            /\ pc' = "returned"
            /\ UNCHANGED <<output, results>>
    /\ UNCHANGED <<ip_list, fields_opt, output_format, idx, ip, rec, lookups,
                   returned, failure>>
    /\ UNCHANGED filterVars

\* lines 162-165: the next line of the file, stripped; a line that is not
\* empty is passed to get_ip_info, which calls IPData.lookup
ForNext ==
    /\ pc = "for"
    /\ idx < Len(ip_list)
    /\ idx' = idx + 1
    /\ ip' = Strip(ip_list[idx + 1])
    /\ IF Len(ip') > 0
       THEN /\ lookups' = Append(lookups, Strip(ip'))
            /\ pc' = "lookup"
       ELSE /\ pc' = "for"
            /\ UNCHANGED lookups
    /\ UNCHANGED <<ip_list, fields_opt, extract_fields, output_format, rec,
                   results, output, err, returned, failure>>
    /\ UNCHANGED filterVars

\* IPData.lookup returns a record or raises; nothing in batch catches it
LookupReturn ==
    /\ pc = "lookup"
    /\ \E o \in LookupOutcomes(lookups[Len(lookups)]) :
          IF IsRaised(o)
          THEN /\ failure' = o.t
               /\ pc' = "raised"
               /\ UNCHANGED <<rec, returned>>
          ELSE /\ rec' = o
               /\ returned' = Append(returned, o)
               /\ pc' = "deliver"
               /\ UNCHANGED failure
    /\ UNCHANGED <<ip_list, fields_opt, extract_fields, output_format, idx, ip,
                   results, output, err, lookups>>
    /\ UNCHANGED filterVars

\* the rest of get_ip_info (lines 191-194) and print_result of its value
\* (line 144 for CSV, line 153 for JSON)
Deliver ==
    /\ pc = "deliver"
    /\ LET r == GetIpInfo(rec, extract_fields) IN
       IF IsRaised(r)
       THEN /\ failure' = r.t
            /\ pc' = "raised"
            /\ UNCHANGED <<output, results>>
       ELSE IF output_format = "CSV"
       THEN LET row == RowCells(r, extract_fields) IN
            IF IsRaised(row)
            THEN /\ failure' = row.t
                 /\ pc' = "raised"
                 /\ UNCHANGED <<output, results>>
            ELSE /\ output' = Append(output, Row(row.l))
                 /\ pc' = "for"
                 /\ UNCHANGED <<failure, results>>
       ELSE /\ results' = Append(results, r)
            /\ pc' = "for"
            /\ UNCHANGED <<failure, output>>
    /\ UNCHANGED <<ip_list, fields_opt, extract_fields, output_format, idx, ip,
                   rec, err, lookups, returned>>
    /\ UNCHANGED filterVars

\* finish() indented into the body of the for loop: called after each line
FinishInLoop ==
    /\ pc = "for"
    /\ idx > 0
    /\ Len(output) < idx
    /\ IF output_format = "CSV"
       THEN UNCHANGED output
       ELSE output' = Append(output, Document(Dict(s_results :> List(results))))
    /\ pc' = IF idx = Len(ip_list) THEN "done" ELSE "for"
    /\ UNCHANGED <<ip_list, fields_opt, extract_fields, output_format, idx, ip,
                   rec, results, err, lookups, returned, failure>>
    /\ UNCHANGED filterVars

\* line 166: finish() once the file is exhausted
Finish ==
    /\ pc = "for"
    /\ idx = Len(ip_list)
    /\ IF output_format = "CSV"
       THEN UNCHANGED output
       ELSE output' = Append(output, Document(Dict(s_results :> List(results))))
    /\ pc' = "done"
    /\ UNCHANGED <<ip_list, fields_opt, extract_fields, output_format, idx, ip,
                   rec, results, err, lookups, returned, failure>>
    /\ UNCHANGED filterVars

Next == Setup \/ ForNext \/ LookupReturn \/ Deliver \/ Finish

Spec == Init /\ [][Next]_vars

-----------------------------------------------------------------------------
\* What the properties of json_filter are stated with

\* the dotted path of a selector
Path(name) == Split(name, ".")

\* each segment of the path names a key present along the path in v
RECURSIVE Resolves(_, _)
Resolves(v, path) ==
    /\ Len(path) > 0
    /\ IsDict(v)
    /\ path[1] \in DOMAIN v.d
    /\ (Len(path) = 1 \/ Resolves(v.d[path[1]], Tail(path)))

\* the value at a path that resolves in v
RECURSIVE ValueAt(_, _)
ValueAt(v, path) ==
    IF Len(path) = 1 THEN v.d[path[1]] ELSE ValueAt(v.d[path[1]], Tail(path))

\* the deep merge of two dicts: the keys of both; under a key of both, the
\* deep merge of two dicts and otherwise the second value
RECURSIVE DeepMerge(_, _)
DeepMerge(x, y) ==
    Dict([k \in DOMAIN x.d \cup DOMAIN y.d |->
            IF k \notin DOMAIN y.d THEN x.d[k]
            ELSE IF k \notin DOMAIN x.d THEN y.d[k]
            ELSE IF IsDict(x.d[k]) /\ IsDict(y.d[k]) THEN DeepMerge(x.d[k], y.d[k])
            ELSE y.d[k]])

Called == pc \in {"returned", "raised", "reapplied"}

\* fields is ['a.b', 'a.c'] for some keys a, b and c
SameParentPair ==
    /\ Len(fields) = 2
    /\ \A i \in 1..2 :
          /\ Len(Path(fields[i])) = 2
          /\ \A j \in 1..2 : Path(fields[i])[j] # <<>>
    /\ Path(fields[1])[1] = Path(fields[2])[1]

-----------------------------------------------------------------------------
\* Properties of json_filter, checked under SpecFilter

\* C1: every selector of the list that resolves in the record resolves in
\* the projection to the same value, whatever the number of selectors and
\* the depth (here: for each call that returns)
C1_ResolvedSelectorsKept ==
    pc \in {"returned", "reapplied"} =>
        \A i \in 1..Len(fields) :
            Resolves(json, Path(fields[i])) =>
                /\ Resolves(res, Path(fields[i]))
                /\ ValueAt(res, Path(fields[i])) = ValueAt(json, Path(fields[i]))

\* C2: json_filter never fails: every call returns a mapping
C2_NeverFails == Called => IsDict(res)

\* C3: a selector that does not resolve in the record adds nothing: the
\* projection with it appended to the list is the projection without it
\* (here: whenever both calls return)
C3_UnresolvedAddsNothing ==
    pc \in {"returned", "reapplied"} =>
        \A s \in Selectors :
            ~Resolves(json, Path(s)) =>
                LET with == json_filter(json, Append(fields, s)) IN
                IsDict(with) => with = res

\* C4: json_filter(r, ['a.b', 'a.c']) is the deep merge of
\* json_filter(r, ['a.b']) and json_filter(r, ['a.c']), and holds b and c in
\* one mapping under a when both resolve in r
C4_MergeProperty ==
    (Called /\ SameParentPair) =>
        LET a == Path(fields[1])[1]
            one == json_filter(json, <<fields[1]>>)
            two == json_filter(json, <<fields[2]>>)
        IN  /\ IsDict(one) /\ IsDict(two) /\ IsDict(res)
            /\ res = DeepMerge(one, two)
            /\ (Resolves(json, Path(fields[1])) /\ Resolves(json, Path(fields[2]))) =>
                  /\ a \in DOMAIN res.d
                  /\ IsDict(res.d[a])
                  /\ \A i \in 1..2 :
                        /\ Path(fields[i])[2] \in DOMAIN res.d[a].d
                        /\ res.d[a].d[Path(fields[i])[2]] = ValueAt(json, Path(fields[i]))

\* C5: json_filter(json_filter(r, S), S) equals json_filter(r, S) for every
\* record r and selector list S
C5_Idempotent ==
    Called => /\ IsDict(res)
              /\ json_filter(res, fields) = res
              /\ (pc = "reapplied" => again = res)

-----------------------------------------------------------------------------
\* What holds of json_filter on the calls that return

\* the merge property of two selectors under one parent
MergeWhereReturned ==
    (pc \in {"returned", "reapplied"} /\ SameParentPair) =>
        LET one == json_filter(json, <<fields[1]>>)
            two == json_filter(json, <<fields[2]>>)
        IN  IsDict(one) /\ IsDict(two) /\ res = DeepMerge(one, two)

\* a call that raises does so whenever one of the two single calls raises
MergeRaises ==
    (Called /\ SameParentPair) =>
        (IsRaised(res) <=> (\E i \in 1..2 : IsRaised(json_filter(json, <<fields[i]>>))))

\* the projection of a projection is the projection
IdempotentWhereReturned == pc = "reapplied" => again = res

-----------------------------------------------------------------------------
\* What the properties of batch are stated with

\* the stripped lines of the file that are not empty, in order
RECURSIVE NonBlank(_)
NonBlank(lines) ==
    IF Len(lines) = 0 THEN <<>>
    ELSE (IF Len(Strip(lines[1])) > 0 THEN <<Strip(lines[1])>> ELSE <<>>)
         \o NonBlank(Tail(lines))

IsHeader(w) == w.kind = "header"
IsRow(w) == w.kind = "row"
IsDocument(w) == w.kind = "json"
Rows == SelectSeq(output, IsRow)
Documents == SelectSeq(output, IsDocument)

IsPrefix(p, q) == Len(p) <= Len(q) /\ SubSeq(q, 1, Len(p)) = p

Ended == pc \in {"done", "raised", "returned"}

\* the document {"results": [...]} of the projected records of recs
ResultsOf(recs) ==
    Document(Dict(s_results :>
        List([i \in 1..Len(recs) |-> GetIpInfo(recs[i], extract_fields)])))

-----------------------------------------------------------------------------
\* Properties of batch, checked under Spec

\* C6: in CSV output every record the lookup returned gives one row, whose
\* cells are the values at the selectors' dotted paths in the projected
\* record, in selector order, and writing the row does not fail
C6_RowPerRecord ==
    (output_format = "CSV" /\ pc \in {"for", "done", "raised"}) =>
        /\ failure # "KeyError"
        /\ (failure = "none" => Len(Rows) = Len(returned))
        /\ \A i \in 1..Len(Rows) :
              LET projected == GetIpInfo(returned[i], extract_fields) IN
              /\ Len(Rows[i].cells) = Len(extract_fields.l)
              /\ \A j \in 1..Len(extract_fields.l) :
                    /\ Resolves(projected, Path(extract_fields.l[j].s))
                    /\ Rows[i].cells[j] = ValueAt(projected, Path(extract_fields.l[j].s))

\* C7: the lookups are made for the stripped non-blank lines, one by one in
\* input order, and when no lookup fails the JSON output is the document
\* whose results are the projected records of these lines, in order
C7_OrderAndCount ==
    /\ IsPrefix(lookups, NonBlank(ip_list))
    /\ Len(returned) <= Len(lookups)
    /\ (Ended /\ pc # "returned" /\ output_format = "JSON"
            /\ failure # "LookupFailure") =>
          /\ lookups = NonBlank(ip_list)
          /\ Len(returned) = Len(lookups)
          /\ \A i \in 1..Len(returned) : returned[i].d[s_ip] = Str(lookups[i])
          /\ output = <<ResultsOf(returned)>>

\* C8: CSV output without selectors is refused before anything is done: no
\* lookup, nothing written to the output, a message to the caller
C8_CsvWithoutFields ==
    (output_format = "CSV" /\ ~Truthy(fields_opt)) =>
        /\ lookups = <<>>
        /\ output = <<>>
        /\ pc \in {"batch", "returned"}
        /\ (pc = "returned" =>
                err = <<"CSV format is not supported without fields">>)

C8_Witness ==
    /\ output_format = "CSV"
    /\ fields_opt = Str(<<>>)
    /\ Len(NonBlank(ip_list)) = 2
    /\ pc = "returned"

\* C9: the JSON document is written at most once, by finish(), once the
\* file is exhausted and every lookup has returned; a failed lookup ends
\* the run: no later lookup and no document, not even a partial one
C9_DocumentState ==
    /\ Len(Documents) <= 1
    /\ Len(Documents) = 1 =>
          /\ pc = "done"
          /\ output_format = "JSON"
          /\ failure = "none"
          /\ idx = Len(ip_list)
          /\ lookups = NonBlank(ip_list)
          /\ Len(returned) = Len(lookups)
          /\ output = <<Document(Dict(s_results :> List(results)))>>
    /\ (pc = "done" /\ output_format = "JSON") => Len(Documents) = 1
    /\ failure = "LookupFailure" => (pc = "raised" /\ Len(Documents) = 0)

C9_DocumentOnceAtEnd ==
    /\ []C9_DocumentState
    /\ [][failure = "LookupFailure" => (lookups' = lookups /\ output' = output)]_vars
    /\ [][Len(Documents) = 1 => output' = output]_vars

C9_Witness ==
    /\ output_format = "JSON"
    /\ Len(NonBlank(ip_list)) = 3
    /\ Len(lookups) = 2
    /\ Len(results) = 1
    /\ failure = "LookupFailure"

\* C10: CSV output is streamed: the header '# ' + fields first, before any
\* lookup; the row of each address once its lookup has returned and before
\* the next lookup starts; nothing written by finish
C10_RowsStreamed ==
    (output_format = "CSV" /\ Truthy(fields_opt) /\ pc # "batch") =>
        /\ Len(output) >= 1
        /\ output[1] = Header(<<"#", " ">> \o fields_opt.s)
        /\ output = <<output[1]>> \o Rows
        /\ (pc = "lookup" => Len(Rows) = Len(lookups) - 1)
        /\ (pc = "deliver" => Len(Rows) = Len(returned) - 1)
        /\ (pc \in {"for", "done", "raised"} => Len(Rows) = Len(returned))

-----------------------------------------------------------------------------
\* What holds of batch on the runs no exception of the projection or of the
\* row ends

\* a run that reaches finish() has looked up every non-blank line and
\* written the document of their projected records
OrderWhereFinished ==
    (pc = "done" /\ output_format = "JSON") =>
        /\ lookups = NonBlank(ip_list)
        /\ output = <<ResultsOf(returned)>>

\* no row is written later than the next lookup, and none by finish
StreamingOrder ==
    (output_format = "CSV" /\ Truthy(fields_opt) /\ pc # "batch") =>
        /\ output = <<Header(<<"#", " ">> \o fields_opt.s)>> \o Rows
        /\ (pc = "lookup" => Len(Rows) = Len(lookups) - 1)
        /\ (pc \in {"for", "done"} => Len(Rows) = Len(returned))

====
